---- MODULE Spec2Model ----
(***************************************************************************)
(* Budget App backend: registration, login, the bearer-token guard, and    *)
(* the per-user transaction store (create, list, get, soft delete,         *)
(* balance), as a state machine over the two MongoDB collections.          *)
(*                                                                         *)
(* Every "await" on the store is one atomic step; a handler that awaits    *)
(* the store twice (register: find_one then insert_one; every guarded      *)
(* route: the guard's find_one, then the handler body) is two steps, and   *)
(* other requests may run in between.                                      *)
(***************************************************************************)
EXTENDS Integers, Sequences, FiniteSets, TLC

(* ------------------------------ bounds -------------------------------- *)

\* concurrent requests in flight
NumClients == 2
\* documents the users collection may hold
MaxUsers == 2
\* documents the transactions collection may hold
MaxTxns == 2
\* the clock is sampled at 0..MaxSmall ticks after each multiple of the TTL
MaxSmall == 2
\* multiples of the token TTL the clock may reach
MaxJumps == 1
\* tokens login issues before the model stops it
MaxTokens == 3
\* clock ticks per second (the clock is finer than JWT's whole seconds)
TicksPerSecond == 2

(* --------------------------- configuration ---------------------------- *)

access_token_expire_minutes == 30

\* Optional fields: None for a timestamp or id that is absent
None == -1

Clients == 1..NumClients

(* ------------------------------ strings ------------------------------- *)
\* A string is a sequence of one-character strings.

UpperChars == {"A", "B", "V", "W", "X"}
DigitChars == {"1", "2", "3"}
LowerChars == {"a", "b", "c", "d", "e", "g", "i", "k", "l", "n", "o", "r", "w", "x"}

LowerChar(c) ==
    CASE c = "A" -> "a"
      [] c = "B" -> "b"
      [] c = "V" -> "v"
      [] c = "W" -> "w"
      [] c = "X" -> "x"
      [] OTHER -> c

Lower(s) == [i \in DOMAIN s |-> LowerChar(s[i])]

Positions(s, c) == {i \in DOMAIN s : s[i] = c}

\* EmailStr: exactly one "@", a non-empty local part, a domain with an inner
\* dot, and only letters, digits, "@" and "." (none of the quote or space
\* characters of an injection attempt).
EmailValid(s) ==
    /\ Cardinality(Positions(s, "@")) = 1
    /\ LET at == CHOOSE i \in Positions(s, "@") : TRUE
       IN  /\ at > 1
           /\ \E d \in Positions(s, ".") : d > at + 1 /\ d < Len(s)
    /\ \A i \in DOMAIN s :
          s[i] \in UpperChars \cup LowerChars \cup DigitChars \cup {"@", "."}

\* EmailStr normalisation: the domain is lower-cased, the local part is kept
\* as the client wrote it.
EmailNormalize(s) ==
    LET at == CHOOSE i \in Positions(s, "@") : TRUE
    IN  [i \in DOMAIN s |-> IF i > at THEN LowerChar(s[i]) ELSE s[i]]

\* UserCreate.password: Field(min_length=8, max_length=100) and the
\* validator's upper/lower/digit rules.
validate_password(v) ==
    /\ Len(v) >= 8
    /\ Len(v) <= 100
    /\ \E i \in DOMAIN v : v[i] \in UpperChars
    /\ \E i \in DOMAIN v : v[i] \in LowerChars
    /\ \E i \in DOMAIN v : v[i] \in DigitChars

\* UserBase.full_name, by its length: Field(min_length=1, max_length=100)
FullNameValid(n) == n >= 1 /\ n <= 100

(* ------------------------------ inputs -------------------------------- *)

EmailAx   == <<"a", "@", "x", ".", "c">>
EmailAX   == <<"a", "@", "X", ".", "c">>
EmailAAx  == <<"A", "@", "x", ".", "c">>
EmailBx   == <<"b", "@", "x", ".", "c">>
EmailBad  == <<"a", "@", "x", ".", "c", "'">>

PwValid == <<"V", "a", "l", "i", "d", "1", "2", "3">>
PwWrong == <<"W", "r", "o", "n", "g", "1", "2", "3">>
PwWeak  == <<"w", "e", "a", "k">>

\* two passwords of 73 characters that differ in the last one, and a third
\* password of 8 characters that differs from PwValid in the last one
PwLong      == PwValid \o [i \in 1..64 |-> "a"] \o <<"x">>
PwLongOther == PwValid \o [i \in 1..64 |-> "a"] \o <<"b">>
PwValid2    == <<"V", "a", "l", "i", "d", "1", "2", "2">>

\* the bodies clients post to /auth/register: four well-formed ones, and one
\* for each field that fails validation
RegisterBodies ==
    {[email |-> e, full_name |-> 5, password |-> PwValid] :
        e \in {EmailAx, EmailAX, EmailAAx, EmailBx}}
    \cup {[email |-> EmailBad, full_name |-> 5, password |-> PwValid],
          [email |-> EmailAx,  full_name |-> 0, password |-> PwValid],
          [email |-> EmailAx,  full_name |-> 5, password |-> PwWeak]}

\* the forms clients post to /auth/login
LoginForms ==
    {[email |-> e, password |-> p] :
        e \in {EmailAx, EmailAX, EmailBx}, p \in {PwValid, PwWrong}}

Salts == {"salt1", "salt2"}

(* ------------------------------- clock -------------------------------- *)

\* timedelta(minutes=access_token_expire_minutes), in clock ticks
TokenTTL == access_token_expire_minutes * 60 * TicksPerSecond

\* the instants the clock is observed at
TimePoints == {j * TokenTTL + s : j \in 0..MaxJumps, s \in 0..MaxSmall}

\* timegm(dt.utctimetuple()): a datetime as whole seconds
UnixSeconds(t) == t \div TicksPerSecond

VARIABLES
    users,          \* the users collection, in insertion order
    transactions,   \* the transactions collection, in insertion order
    tokens,         \* the bearer tokens login has issued, with their issue time
    requests,       \* per client connection: the request in flight, or Idle
    now             \* the wall clock, in ticks

vars == <<users, transactions, tokens, requests, now>>

\* A connection is idle, or its request is suspended at an await on the
\* store (pc "register_insert", "body"), or its response is written and not
\* yet read by the client (pc "done").
Idle == [pc |-> "idle"]

\* an HTTPException(status_code, detail, headers)
HTTPException(req, status_code, detail, www_authenticate) ==
    [pc |-> "done", req |-> req, status |-> status_code,
     body |-> [detail |-> detail], www_authenticate |-> www_authenticate]

\* a route's return value under its status_code
Response(req, status_code, body) ==
    [pc |-> "done", req |-> req, status |-> status_code,
     body |-> body, www_authenticate |-> FALSE]

\* pydantic's RequestValidationError
ValidationError(req) == HTTPException(req, 422, "validation error", FALSE)

(* --------------------------- credential hasher ------------------------ *)

\* bcrypt reads no more than the first 72 bytes of a password
BcryptMaxBytes == 72

\* bcrypt's digest of a password under a salt: of its first 72 bytes
Crypt(password, salt) ==
    <<salt, SubSeq(password, 1, IF Len(password) <= BcryptMaxBytes
                                THEN Len(password) ELSE BcryptMaxBytes)>>

\* pwd_context.hash: the salt is embedded in the hash
get_password_hash(password, salt) ==
    [salt |-> salt, digest |-> Crypt(password, salt)]

\* pwd_context.verify: recompute under the embedded salt and compare
verify_password(plain_password, hashed_password) ==
    Crypt(plain_password, hashed_password.salt) = hashed_password.digest

(* ----------------------------- user store ----------------------------- *)

First(S) == CHOOSE i \in S : \A j \in S : i <= j

\* the matches of db.users.find_one({"email": email, "deleted_at": None})
ActiveByEmail(email) ==
    {i \in DOMAIN users : users[i].email = email /\ users[i].deleted_at = None}

\* (mutant) the guard's lookup without the soft-delete filter
ActiveByPublicId_WithDeleted(pid) ==
    {i \in DOMAIN users : users[i].public_id = pid}

\* the matches of db.users.find_one({"public_id": pid, "deleted_at": None})
ActiveByPublicId(pid) ==
    {i \in DOMAIN users : users[i].public_id = pid /\ users[i].deleted_at = None}

\* UserInDB(email, full_name, hashed_password) with its default fields
UserInDB(public_id, email, full_name, hashed_password, t) ==
    [public_id |-> public_id, email |-> email, full_name |-> full_name,
     hashed_password |-> hashed_password, created_at |-> t, updated_at |-> t,
     deleted_at |-> None, is_active |-> TRUE]

UserResponse(user) ==
    [public_id |-> user.public_id, email |-> user.email,
     full_name |-> user.full_name, created_at |-> user.created_at]

(* ------------------------------ register ------------------------------ *)

\* (mutant) the soft-delete filter of the pre-check inverted
EmailTaken_DeletedOnly(email) ==
    \E i \in DOMAIN users : users[i].email = email /\ users[i].deleted_at # None

\* the pre-check of register: is the e-mail taken by a non-deleted user?
EmailTaken(email) == ActiveByEmail(email) # {}

\* POST /auth/register up to its first await: body validation (422), then
\* the find_one pre-check (400); the request then suspends before insert_one.
RegisterCheck(c, email, full_name, password) ==
    /\ requests[c] = Idle
    /\ LET req == [op |-> "register", email |-> email, full_name |-> full_name,
                   password |-> password]
       IN
       IF ~(EmailValid(email) /\ FullNameValid(full_name) /\ validate_password(password))
       THEN requests' = [requests EXCEPT ![c] = ValidationError(req)]
       ELSE IF EmailTaken(EmailNormalize(email))
       THEN requests' = [requests EXCEPT ![c] =
                HTTPException(req, 400, "Email already registered", FALSE)]
       ELSE requests' = [requests EXCEPT ![c] =
                [pc |-> "register_insert", req |-> req,
                 email |-> EmailNormalize(email)]]
    /\ UNCHANGED <<users, transactions, tokens, now>>

\* register after the pre-check: hash the password, build UserInDB (a fresh
\* uuid4), insert_one, 201 with the public view
RegisterInsert(c, salt) ==
    /\ requests[c].pc = "register_insert"
    /\ Len(users) < MaxUsers
    /\ LET r == requests[c]
           user == UserInDB(Len(users) + 1, r.email, r.req.full_name,
                            get_password_hash(r.req.password, salt), now)
       IN  /\ users' = Append(users, user)
           /\ requests' = [requests EXCEPT ![c] =
                              Response(r.req, 201, UserResponse(user))]
    /\ UNCHANGED <<transactions, tokens, now>>

(* ------------------------ token issuer / verifier --------------------- *)

\* create_access_token: the claims plus "exp" (the configured lifetime when
\* no expires_delta is given); jwt.encode writes the datetime exp as whole
\* seconds and signs with settings.secret_key
create_access_token(data, expires_delta, t) ==
    LET expire == IF expires_delta # None /\ expires_delta # 0
                  THEN t + expires_delta
                  ELSE t + access_token_expire_minutes * 60 * TicksPerSecond
    IN  [kind |-> "signed",
         payload |-> [sub |-> data.sub, email |-> data.email,
                      exp |-> UnixSeconds(expire)]]

\* (mutant) the expiry is not verified
JwtDecodeOk_NoExpiry(credentials, t) == credentials.kind = "signed"

\* jwt.decode: a JWTError for anything not signed with settings.secret_key and
\* for an exp earlier than the current whole second, else the payload
JwtDecodeOk(credentials, t) ==
    /\ credentials.kind = "signed"
    /\ ~("exp" \in DOMAIN credentials.payload
         /\ credentials.payload.exp < UnixSeconds(t))

\* (mutant) the password is not verified
authenticate_user_SkipVerify(email, password) ==
    IF ActiveByEmail(email) = {} THEN None ELSE First(ActiveByEmail(email))

\* (mutant) a deactivated user is not authenticated
authenticate_user_ActiveOnly(email, password) ==
    IF ActiveByEmail(email) = {} THEN None
    ELSE IF ~verify_password(password, users[First(ActiveByEmail(email))].hashed_password)
         THEN None
         ELSE IF ~users[First(ActiveByEmail(email))].is_active
         THEN None
         ELSE First(ActiveByEmail(email))

\* authenticate_user: the first non-deleted user with this e-mail, if the
\* password verifies; None otherwise
authenticate_user(email, password) ==
    IF ActiveByEmail(email) = {} THEN None
    ELSE IF ~verify_password(password, users[First(ActiveByEmail(email))].hashed_password)
         THEN None
         ELSE First(ActiveByEmail(email))

\* the 401 of login
LoginFailure(req) ==
    HTTPException(req, 401, "Incorrect email or password", TRUE)

\* (mutant) timedelta(seconds=...) in place of timedelta(minutes=...)
LoginExpiresDelta_Seconds == access_token_expire_minutes * TicksPerSecond

\* the timedelta login passes to create_access_token, in ticks
LoginExpiresDelta == access_token_expire_minutes * 60 * TicksPerSecond

\* (mutant) a successful login stamps the user document
Login_TouchesUser(c, email, password) ==
    /\ requests[c] = Idle
    /\ LET req == [op |-> "login", email |-> email, password |-> password]
           u == authenticate_user(email, password)
       IN  IF u = None
           THEN /\ requests' = [requests EXCEPT ![c] = LoginFailure(req)]
                /\ UNCHANGED <<tokens, users>>
           ELSE LET tok == create_access_token(
                              [sub |-> users[u].public_id, email |-> users[u].email],
                              LoginExpiresDelta, now)
                IN  /\ Cardinality(tokens \cup {[token |-> tok, issued_at |-> now]})
                          <= MaxTokens
                    /\ tokens' = tokens \cup {[token |-> tok, issued_at |-> now]}
                    /\ users' = [users EXCEPT ![u].updated_at = now]
                    /\ requests' = [requests EXCEPT ![c] =
                          Response(req, 200,
                                   [access_token |-> tok, token_type |-> "bearer"])]
    /\ UNCHANGED <<transactions, now>>

\* POST /auth/login: the form's email is a plain str (no normalisation)
Login(c, email, password) ==
    /\ requests[c] = Idle
    /\ LET req == [op |-> "login", email |-> email, password |-> password]
           u == authenticate_user(email, password)
       IN  IF u = None
           THEN /\ requests' = [requests EXCEPT ![c] = LoginFailure(req)]
                /\ UNCHANGED tokens
           ELSE LET tok == create_access_token(
                              [sub |-> users[u].public_id, email |-> users[u].email],
                              LoginExpiresDelta, now)
                IN  /\ Cardinality(tokens \cup {[token |-> tok, issued_at |-> now]})
                          <= MaxTokens
                    /\ tokens' = tokens \cup {[token |-> tok, issued_at |-> now]}
                    /\ requests' = [requests EXCEPT ![c] =
                          Response(req, 200,
                                   [access_token |-> tok, token_type |-> "bearer"])]
    /\ UNCHANGED <<users, transactions, now>>

(* ------------------------------ auth guard ---------------------------- *)

\* a sub no user document ever had
UnknownSub == MaxUsers + 1

\* Authorization headers a client can send without the server's key, and
\* tokens carrying the server's signature that login did not issue
NoHeader      == [kind |-> "none"]
Malformed     == [kind |-> "malformed"]
BadSignature  == [kind |-> "badsig",
                  payload |-> [sub |-> 1, email |-> EmailAx, exp |-> UnixSeconds((MaxJumps + 2) * TokenTTL)]]
MissingSub    == [kind |-> "signed",
                  payload |-> [email |-> EmailAx, exp |-> UnixSeconds((MaxJumps + 2) * TokenTTL)]]
MissingEmail  == [kind |-> "signed",
                  payload |-> [sub |-> 1, exp |-> UnixSeconds((MaxJumps + 2) * TokenTTL)]]
UnknownUser   == [kind |-> "signed",
                  payload |-> [sub |-> UnknownSub, email |-> EmailAx,
                               exp |-> UnixSeconds((MaxJumps + 2) * TokenTTL)]]

OtherCredentials == {NoHeader, Malformed, BadSignature, MissingSub, MissingEmail, UnknownUser}

Credentials == {t.token : t \in tokens} \cup OtherCredentials

\* The outcome of Depends(get_current_user): 401 from HTTPBearer for a
\* missing header, 401 credentials_exception, 403 for an inactive user, or
\* the user's public_id (status 200)
get_current_user(credentials, t) ==
    IF credentials.kind = "none"
    THEN [status |-> 401, detail |-> "Not authenticated"]
    ELSE IF ~JwtDecodeOk(credentials, t)
    THEN [status |-> 401, detail |-> "Could not validate credentials"]
    ELSE IF ~({"sub", "email"} \subseteq DOMAIN credentials.payload)
    THEN [status |-> 401, detail |-> "Could not validate credentials"]
    ELSE IF ActiveByPublicId(credentials.payload.sub) = {}
    THEN [status |-> 401, detail |-> "Could not validate credentials"]
    ELSE IF ~users[First(ActiveByPublicId(credentials.payload.sub))].is_active
    THEN [status |-> 403, detail |-> "Inactive user account"]
    ELSE [status |-> 200, user |-> credentials.payload.sub]

(* ---------------------------- request bodies -------------------------- *)

TransactionType == {"income", "expense"}

TransactionCategory ==
    {"salary", "freelance", "investment", "other_income", "housing",
     "transportation", "food", "utilities", "healthcare", "entertainment",
     "shopping", "other_expense"}

\* (mutant) the amount validated with ge=0 in place of gt=0
TransactionCreateValid_AllowZero(b) ==
    /\ b.type \in TransactionType
    /\ b.category \in TransactionCategory
    /\ b.amount >= 0
    /\ b.description <= 500

\* TransactionCreate: enum membership, amount > 0, description <= 500 chars
\* (the description is modelled by its length)
TransactionCreateValid(b) ==
    /\ b.type \in TransactionType
    /\ b.category \in TransactionCategory
    /\ b.amount > 0
    /\ b.description <= 500

\* the bodies clients post to /transactions
CreateBodies ==
    {[type |-> "income",  category |-> "salary", amount |-> 5000, description |-> 0, date |-> None],
     [type |-> "expense", category |-> "food",   amount |-> 500,  description |-> 0, date |-> None],
     [type |-> "income",  category |-> "food",   amount |-> 500,  description |-> 0, date |-> None],
     [type |-> "expense", category |-> "salary", amount |-> 5000, description |-> 0, date |-> None],
     [type |-> "income",  category |-> "salary", amount |-> 0,    description |-> 0, date |-> None],
     [type |-> "expense", category |-> "food",   amount |-> -100, description |-> 0, date |-> None],
     [type |-> "refund",  category |-> "salary", amount |-> 500,  description |-> 0, date |-> None],
     [type |-> "income",  category |-> "salary", amount |-> 500,  description |-> 501, date |-> None]}

\* the transaction ids clients ask for: every id in use and one never used
TransactionIds == 1..(MaxTxns + 1)

SkipInputs == {0}
LimitInputs == {100}

\* the requests clients send to the guarded routes, without the credentials
GuardedRequests ==
    {[op |-> "create", body |-> b] : b \in CreateBodies}
    \cup {[op |-> "list", skip |-> s, limit |-> l] : s \in SkipInputs, l \in LimitInputs}
    \cup {[op |-> "get", transaction_id |-> i] : i \in TransactionIds}
    \cup {[op |-> "delete", transaction_id |-> i] : i \in TransactionIds}
    \cup {[op |-> "balance"]}

\* request validation of a guarded route (422), reported once the
\* dependencies are solved
RequestValid(r) ==
    IF r.op = "create" THEN TransactionCreateValid(r.body) ELSE TRUE

\* A guarded route up to the end of Depends(get_current_user): the guard's
\* rejection, the 422 of the body, or the handler suspended at its store call
\* with current_user resolved.
Guard(c, r, credentials) ==
    /\ requests[c] = Idle
    /\ LET req == [op |-> r.op, args |-> r, credentials |-> credentials]
           g == get_current_user(credentials, now)
       IN  IF g.status # 200
           THEN requests' = [requests EXCEPT ![c] =
                                HTTPException(req, g.status, g.detail, g.status = 401)]
           ELSE IF ~RequestValid(r)
           THEN requests' = [requests EXCEPT ![c] = ValidationError(req)]
           ELSE requests' = [requests EXCEPT ![c] =
                                [pc |-> "body", req |-> req, current_user |-> g.user]]
    /\ UNCHANGED <<users, transactions, tokens, now>>

(* -------------------------- transaction store ------------------------- *)

\* (mutant) the owner taken from the body when the body names one
TransactionInDB_OwnerFromBody(public_id, body, user_public_id, t) ==
    [public_id |-> public_id,
     user_public_id |-> IF "user_public_id" \in DOMAIN body
                        THEN body.user_public_id ELSE user_public_id,
     type |-> body.type, category |-> body.category, amount |-> body.amount,
     description |-> body.description,
     date |-> IF body.date = None THEN t ELSE body.date,
     created_at |-> t, updated_at |-> t, deleted_at |-> None]

\* TransactionInDB(**transaction_data.model_dump(), user_public_id=...): a
\* fresh uuid4, the date defaulting to the creation time
TransactionInDB(public_id, body, user_public_id, t) ==
    [public_id |-> public_id, user_public_id |-> user_public_id,
     type |-> body.type, category |-> body.category, amount |-> body.amount,
     description |-> body.description,
     date |-> IF body.date = None THEN t ELSE body.date,
     created_at |-> t, updated_at |-> t, deleted_at |-> None]

TransactionResponse(doc) ==
    [public_id |-> doc.public_id, type |-> doc.type, category |-> doc.category,
     amount |-> doc.amount, description |-> doc.description, date |-> doc.date,
     created_at |-> doc.created_at]

\* (mutant) list and balance without the soft-delete filter
OwnedLive_WithDeleted(doc, user_public_id) ==
    doc.user_public_id = user_public_id

\* the filter {"user_public_id": ..., "deleted_at": None} of list and balance
OwnedLive(doc, user_public_id) ==
    doc.user_public_id = user_public_id /\ doc.deleted_at = None

\* (mutant) get and delete without the soft-delete filter
OwnedLiveById_WithDeleted(doc, transaction_id, user_public_id) ==
    doc.public_id = transaction_id /\ doc.user_public_id = user_public_id

\* (mutant) get and delete without the ownership filter
OwnedLiveById_AnyOwner(doc, transaction_id, user_public_id) ==
    doc.public_id = transaction_id /\ doc.deleted_at = None

\* the filter of get and delete:
\* {"public_id": ..., "user_public_id": ..., "deleted_at": None}
OwnedLiveById(doc, transaction_id, user_public_id) ==
    /\ doc.public_id = transaction_id
    /\ doc.user_public_id = user_public_id
    /\ doc.deleted_at = None

\* insert doc into a sequence sorted by date descending, after its equals
RECURSIVE InsertByDateDesc(_, _)
InsertByDateDesc(sorted, doc) ==
    IF sorted = <<>> THEN <<doc>>
    ELSE IF Head(sorted).date >= doc.date
         THEN <<Head(sorted)>> \o InsertByDateDesc(Tail(sorted), doc)
         ELSE <<doc>> \o sorted

\* cursor.sort("date", -1)
RECURSIVE SortByDateDesc(_)
SortByDateDesc(docs) ==
    IF docs = <<>> THEN <<>>
    ELSE InsertByDateDesc(SortByDateDesc(SubSeq(docs, 1, Len(docs) - 1)),
                          docs[Len(docs)])

Min(a, b) == IF a <= b THEN a ELSE b

\* cursor.skip(skip).limit(limit): a limit of 0 is no limit, a negative
\* limit is its absolute value
SkipLimit(docs, skip, limit) ==
    LET rest == SubSeq(docs, skip + 1, Len(docs))
        n == IF limit = 0 THEN Len(rest)
             ELSE IF limit < 0 THEN Min(0 - limit, Len(rest))
             ELSE Min(limit, Len(rest))
    IN  SubSeq(rest, 1, n)

\* db.transactions.find(...).sort("date", -1).skip(skip).limit(limit)
get_transactions(user_public_id, skip, limit) ==
    LET found == SelectSeq(transactions, LAMBDA d : OwnedLive(d, user_public_id))
        page == SkipLimit(SortByDateDesc(found), skip, limit)
    IN  [i \in DOMAIN page |-> TransactionResponse(page[i])]

RECURSIVE SumAmounts(_)
SumAmounts(docs) ==
    IF docs = <<>> THEN 0 ELSE Head(docs).amount + SumAmounts(Tail(docs))

\* the aggregation pipeline: $match on owner and deleted_at, $group by type
\* with the total and the count of each group
Aggregate(user_public_id) ==
    LET matched == SelectSeq(transactions, LAMBDA d : OwnedLive(d, user_public_id))
        ofType(t) == SelectSeq(matched, LAMBDA d : d.type = t)
    IN  {[id |-> t, total |-> SumAmounts(ofType(t)), count |-> Len(ofType(t))] :
            t \in {matched[i].type : i \in DOMAIN matched}}

\* (mutant) the loop overwrites transaction_count instead of adding to it,
\* and the expense group comes last
get_balance_CountOverwritten(user_public_id) ==
    LET results == Aggregate(user_public_id)
        incomeGroups == {g \in results : g.id = "income"}
        expenseGroups == {g \in results : g.id = "expense"}
        total_income ==
            IF incomeGroups = {} THEN 0 ELSE (CHOOSE g \in incomeGroups : TRUE).total
        total_expenses ==
            IF expenseGroups = {} THEN 0 ELSE (CHOOSE g \in expenseGroups : TRUE).total
        income_count ==
            IF incomeGroups = {} THEN 0 ELSE (CHOOSE g \in incomeGroups : TRUE).count
    IN  [total_income |-> total_income,
         total_expenses |-> total_expenses,
         current_balance |-> total_income - total_expenses,
         transaction_count |->
            IF expenseGroups = {} THEN income_count
            ELSE (CHOOSE g \in expenseGroups : TRUE).count]

\* get_balance: the loop over the groups, then BalanceResponse
get_balance(user_public_id) ==
    LET results == Aggregate(user_public_id)
        incomeGroups == {g \in results : g.id = "income"}
        expenseGroups == {g \in results : g.id = "expense"}
        total_income ==
            IF incomeGroups = {} THEN 0 ELSE (CHOOSE g \in incomeGroups : TRUE).total
        total_expenses ==
            IF expenseGroups = {} THEN 0 ELSE (CHOOSE g \in expenseGroups : TRUE).total
        income_count ==
            IF incomeGroups = {} THEN 0 ELSE (CHOOSE g \in incomeGroups : TRUE).count
        expense_count ==
            IF expenseGroups = {} THEN 0 ELSE (CHOOSE g \in expenseGroups : TRUE).count
    IN  [total_income |-> total_income,
         total_expenses |-> total_expenses,
         current_balance |-> total_income - total_expenses,
         transaction_count |-> income_count + expense_count]

(* ------------------------- guarded route bodies ----------------------- *)

Suspended(c, op) == requests[c].pc = "body" /\ requests[c].req.op = op

\* (mutant) a create whose content the user already has stored answers with
\* the stored transaction and inserts nothing
CreateBody_Deduplicating(c) ==
    /\ Suspended(c, "create")
    /\ Len(transactions) < MaxTxns
    /\ LET r == requests[c]
           doc == TransactionInDB(Len(transactions) + 1, r.req.args.body,
                                  r.current_user, now)
           same == {i \in DOMAIN transactions :
                       /\ transactions[i].user_public_id = r.current_user
                       /\ transactions[i].type = doc.type
                       /\ transactions[i].category = doc.category
                       /\ transactions[i].amount = doc.amount
                       /\ transactions[i].description = doc.description}
       IN  IF same = {}
           THEN /\ transactions' = Append(transactions, doc)
                /\ requests' = [requests EXCEPT ![c] =
                                   Response(r.req, 201, TransactionResponse(doc))]
           ELSE /\ UNCHANGED transactions
                /\ requests' = [requests EXCEPT ![c] =
                                   Response(r.req, 201,
                                            TransactionResponse(transactions[First(same)]))]
    /\ UNCHANGED <<users, tokens, now>>

\* create_transaction: insert_one, 201
CreateBody(c) ==
    /\ Suspended(c, "create")
    /\ Len(transactions) < MaxTxns
    /\ LET r == requests[c]
           doc == TransactionInDB(Len(transactions) + 1, r.req.args.body,
                                  r.current_user, now)
       IN  /\ transactions' = Append(transactions, doc)
           /\ requests' = [requests EXCEPT ![c] =
                              Response(r.req, 201, TransactionResponse(doc))]
    /\ UNCHANGED <<users, tokens, now>>

\* get_transactions: find, sort, skip, limit; pymongo refuses a negative skip
ListBody(c) ==
    /\ Suspended(c, "list")
    /\ LET r == requests[c]
       IN  requests' = [requests EXCEPT ![c] =
              IF r.req.args.skip < 0
              THEN HTTPException(r.req, 500, "Internal Server Error", FALSE)
              ELSE Response(r.req, 200,
                            get_transactions(r.current_user, r.req.args.skip,
                                             r.req.args.limit))]
    /\ UNCHANGED <<users, transactions, tokens, now>>

\* get_transaction: find_one with the ownership filter, 404 when None
GetBody(c) ==
    /\ Suspended(c, "get")
    /\ LET r == requests[c]
           hits == {i \in DOMAIN transactions :
                      OwnedLiveById(transactions[i], r.req.args.transaction_id,
                                    r.current_user)}
       IN  requests' = [requests EXCEPT ![c] =
              IF hits = {}
              THEN HTTPException(r.req, 404, "Transaction not found", FALSE)
              ELSE Response(r.req, 200, TransactionResponse(transactions[First(hits)]))]
    /\ UNCHANGED <<users, transactions, tokens, now>>

\* (mutant) the update sets updated_at next to deleted_at
DeleteBody_TouchesUpdatedAt(c) ==
    /\ Suspended(c, "delete")
    /\ LET r == requests[c]
           hits == {i \in DOMAIN transactions :
                      OwnedLiveById(transactions[i], r.req.args.transaction_id,
                                    r.current_user)}
       IN  IF hits = {}
           THEN /\ requests' = [requests EXCEPT ![c] =
                       HTTPException(r.req, 404, "Transaction not found", FALSE)]
                /\ UNCHANGED transactions
           ELSE /\ transactions' =
                       [transactions EXCEPT ![First(hits)].deleted_at = now,
                                            ![First(hits)].updated_at = now]
                /\ requests' = [requests EXCEPT ![c] = Response(r.req, 204, <<>>)]
    /\ UNCHANGED <<users, tokens, now>>

\* (mutant) the update without the condition on deleted_at
DeleteBody_Unconditional(c) ==
    /\ Suspended(c, "delete")
    /\ LET r == requests[c]
           hits == {i \in DOMAIN transactions :
                      /\ transactions[i].public_id = r.req.args.transaction_id
                      /\ transactions[i].user_public_id = r.current_user}
       IN  IF hits = {}
           THEN /\ requests' = [requests EXCEPT ![c] =
                       HTTPException(r.req, 404, "Transaction not found", FALSE)]
                /\ UNCHANGED transactions
           ELSE /\ transactions' =
                       [transactions EXCEPT ![First(hits)].deleted_at = now]
                /\ requests' = [requests EXCEPT ![c] = Response(r.req, 204, <<>>)]
    /\ UNCHANGED <<users, tokens, now>>

\* delete_transaction: one conditional update_one setting deleted_at,
\* 404 when matched_count is 0, else 204
DeleteBody(c) ==
    /\ Suspended(c, "delete")
    /\ LET r == requests[c]
           hits == {i \in DOMAIN transactions :
                      OwnedLiveById(transactions[i], r.req.args.transaction_id,
                                    r.current_user)}
       IN  IF hits = {}
           THEN /\ requests' = [requests EXCEPT ![c] =
                       HTTPException(r.req, 404, "Transaction not found", FALSE)]
                /\ UNCHANGED transactions
           ELSE /\ transactions' =
                       [transactions EXCEPT ![First(hits)].deleted_at = now]
                /\ requests' = [requests EXCEPT ![c] = Response(r.req, 204, <<>>)]
    /\ UNCHANGED <<users, tokens, now>>

\* get_balance: aggregate, 200
BalanceBody(c) ==
    /\ Suspended(c, "balance")
    /\ requests' = [requests EXCEPT ![c] =
          Response(requests[c].req, 200, get_balance(requests[c].current_user))]
    /\ UNCHANGED <<users, transactions, tokens, now>>

(* ------------------------------ environment --------------------------- *)

\* the client reads the response; the connection is free for the next request
Receive(c) ==
    /\ requests[c].pc = "done"
    /\ requests' = [requests EXCEPT ![c] = Idle]
    /\ UNCHANGED <<users, transactions, tokens, now>>

\* time passes, to a later instant of T
TickTo(T) ==
    /\ \E t \in T : t > now /\ now' = t
    /\ UNCHANGED <<users, transactions, tokens, requests>>

\* time passes, to a later sampled instant
Tick == TickTo(TimePoints)

\* Account management outside these handlers writes the two fields of a user
\* document that the handlers only read: the soft-delete marker ...
SoftDeleteUser(i) ==
    /\ i \in DOMAIN users
    /\ users[i].deleted_at = None
    /\ users' = [users EXCEPT ![i].deleted_at = now, ![i].updated_at = now]
    /\ UNCHANGED <<transactions, tokens, requests, now>>

\* ... and the deactivation flag
DeactivateUser(i) ==
    /\ i \in DOMAIN users
    /\ users[i].is_active
    /\ users' = [users EXCEPT ![i].is_active = FALSE, ![i].updated_at = now]
    /\ UNCHANGED <<transactions, tokens, requests, now>>

(* ---------------------------- specifications -------------------------- *)

\* the state after startup: both collections empty
Init ==
    /\ users = <<>>
    /\ transactions = <<>>
    /\ tokens = {}
    /\ requests = [c \in Clients |-> Idle]
    /\ now = 0

RegisterStep ==
    \/ \E c \in Clients, b \in RegisterBodies :
          RegisterCheck(c, b.email, b.full_name, b.password)
    \/ \E c \in Clients, s \in Salts : RegisterInsert(c, s)

LoginStep(CS) ==
    \E c \in CS, f \in LoginForms : Login(c, f.email, f.password)

GuardStep(CS, RS) ==
    \E c \in CS, r \in RS, cr \in Credentials : Guard(c, r, cr)

BodyStep(CS) ==
    \E c \in CS :
       \/ CreateBody(c)
       \/ ListBody(c)
       \/ GetBody(c)
       \/ DeleteBody(c)
       \/ BalanceBody(c)

ReceiveStep(CS) == \E c \in CS : Receive(c)

\* The whole service: every handler, from the empty store, as time passes.
Next ==
    \/ RegisterStep
    \/ LoginStep(Clients)
    \/ GuardStep(Clients, GuardedRequests)
    \/ BodyStep(Clients)
    \/ ReceiveStep(Clients)
    \/ Tick

Spec == Init /\ [][Next]_vars

\* Registration and login from the empty store, on every connection, while
\* account management soft-deletes users: the requests that write the users
\* collection and read it by e-mail.
NextRegister ==
    \/ RegisterStep
    \/ LoginStep(Clients)
    \/ ReceiveStep(Clients)
    \/ \E i \in 1..MaxUsers : SoftDeleteUser(i)

SpecRegister == Init /\ [][NextRegister]_vars

\* The transaction routes on one connection, from a state the service
\* reaches by registering two users at time 0, logging the first in at once
\* and both in again one second after that first token's expiry: three tokens,
\* the oldest expired.
TxnStart == TokenTTL + TicksPerSecond

RegisteredUser(public_id, email) ==
    UserInDB(public_id, email, 5, get_password_hash(PwValid, "salt1"), 0)

IssuedToken(user, t) ==
    [token |-> create_access_token([sub |-> user.public_id, email |-> user.email],
                                   LoginExpiresDelta, t),
     issued_at |-> t]

InitTxn ==
    /\ users = <<RegisteredUser(1, EmailAx), RegisteredUser(2, EmailBx)>>
    /\ transactions = <<>>
    /\ tokens = {IssuedToken(RegisteredUser(1, EmailAx), 0),
                 IssuedToken(RegisteredUser(1, EmailAx), TxnStart),
                 IssuedToken(RegisteredUser(2, EmailBx), TxnStart)}
    /\ requests = [c \in Clients |-> Idle]
    /\ now = TxnStart

TxnClients == {1}

NextTxn ==
    \/ GuardStep(TxnClients, GuardedRequests)
    \/ BodyStep(TxnClients)
    \/ ReceiveStep(TxnClients)

SpecTxn == InitTxn /\ [][NextTxn]_vars

\* The guard as time passes and as account management soft-deletes or
\* deactivates the user: one registered user on one connection, logging in
\* and calling the two routes that only read the transactions.
InitGuard ==
    /\ users = <<RegisteredUser(1, EmailAx)>>
    /\ transactions = <<>>
    /\ tokens = {}
    /\ requests = [c \in Clients |-> Idle]
    /\ now = 0

GuardClients == {1}

ReadRequests == {r \in GuardedRequests : r.op \in {"list", "balance"}}

NextGuard ==
    \/ LoginStep(GuardClients)
    \/ GuardStep(GuardClients, ReadRequests)
    \/ \E c \in GuardClients : ListBody(c)
    \/ \E c \in GuardClients : BalanceBody(c)
    \/ ReceiveStep(GuardClients)
    \/ Tick
    \/ \E i \in 1..MaxUsers : SoftDeleteUser(i)
    \/ \E i \in 1..MaxUsers : DeactivateUser(i)

SpecGuard == InitGuard /\ [][NextGuard]_vars

(* ====================================================================== *)
(*                               properties                               *)
(* ====================================================================== *)

\* connection c receives a request of route op in this step
Starts(c, op) ==
    /\ requests[c].pc = "idle"
    /\ requests'[c].pc # "idle"
    /\ requests'[c].req.op = op

\* connection c's suspended handler runs its store call and responds
Completes(c, op) ==
    /\ requests[c].pc \in {"body", "register_insert"}
    /\ requests[c].req.op = op
    /\ requests'[c].pc = "done"

Live(doc) == doc.deleted_at = None

\* what the client sees of a response
Seen(r) == [status |-> r.status, body |-> r.body,
            www_authenticate |-> r.www_authenticate]

\* the body of a register request passes validation
RegisterBodyValid(req) ==
    /\ EmailValid(req.email)
    /\ FullNameValid(req.full_name)
    /\ validate_password(req.password)

\* some non-deleted user document holds exactly this e-mail
HeldByLiveUser(email) ==
    \E i \in DOMAIN users : users[i].email = email /\ Live(users[i])

(* ---------------------------------------------------------------------- *)
\* C2: in every reachable state the users collection holds at most one
\* non-deleted user per e-mail, also when two register requests for the same
\* e-mail interleave between the find_one pre-check and the insert_one.
\* (The code has no unique index: two interleaved registrations both insert.)
C2_OneLiveUserPerEmail ==
    \A i, j \in DOMAIN users :
        (i # j /\ Live(users[i]) /\ Live(users[j]))
            => users[i].email # users[j].email

(* ---------------------------------------------------------------------- *)
\* C3: a register request whose (validated) e-mail is the e-mail of an
\* existing non-deleted user is answered 400 "Email already registered" in
\* the step that receives it, and inserts no user; a register request with a
\* valid body whose e-mail no non-deleted user holds passes the pre-check, and
\* its insert step answers 201 and appends exactly one user document, live,
\* with that e-mail.
C3_RegisterOutcome ==
    [][\A c \in Clients :
        /\ (Starts(c, "register") /\ RegisterBodyValid(requests'[c].req))
              => /\ users' = users
                 /\ IF HeldByLiveUser(EmailNormalize(requests'[c].req.email))
                    THEN /\ requests'[c].pc = "done"
                         /\ requests'[c].status = 400
                         /\ requests'[c].body = [detail |-> "Email already registered"]
                    ELSE requests'[c].pc = "register_insert"
        /\ Completes(c, "register")
              => /\ requests'[c].status = 201
                 /\ Len(users') = Len(users) + 1
                 /\ SubSeq(users', 1, Len(users)) = users
                 /\ users'[Len(users')].email = EmailNormalize(requests[c].req.email)
                 /\ Live(users'[Len(users')])
                 /\ requests'[c].body.email = EmailNormalize(requests[c].req.email)
      ]_vars

\* a duplicate registration has been refused while the first user is stored,
\* and the store holds a second user registered under another e-mail
C3_Witness ==
    /\ Len(users) = 2
    /\ users[1].email # users[2].email
    /\ \E c \in Clients :
          /\ requests[c].pc = "done"
          /\ requests[c].req.op = "register"
          /\ requests[c].status = 400
          /\ HeldByLiveUser(requests[c].req.email)

(* ---------------------------------------------------------------------- *)
\* C4: for any two e-mails that differ only in letter case, once one is
\* registered to a non-deleted user a register request with the other is
\* rejected with 400 and no second user is stored.
\* (The code compares the e-mail exactly; only the domain is lower-cased.)
DifferOnlyInCase(e1, e2) == e1 # e2 /\ Lower(e1) = Lower(e2)

C4_CaseInsensitiveConflict ==
    \A i, j \in DOMAIN users :
        (Live(users[i]) /\ Live(users[j]))
            => ~DifferOnlyInCase(users[i].email, users[j].email)

(* ---------------------------------------------------------------------- *)
\* C10: login answers the same response -- 401, "Incorrect email or
\* password", WWW-Authenticate: Bearer -- when no non-deleted user has the
\* e-mail and when one has it but the password is not the registered one; in
\* both cases no token is issued and the store is unchanged. Any two failed
\* logins waiting on two connections are indistinguishable.
RegisteredPassword(i) == users[i].hashed_password.digest[2]

LoginUnknownEmail(req) == ~HeldByLiveUser(req.email)

LoginWrongPassword(req) ==
    /\ HeldByLiveUser(req.email)
    /\ \A i \in DOMAIN users :
          (users[i].email = req.email /\ Live(users[i]))
              => RegisteredPassword(i) # req.password

GenericLoginFailure ==
    [status |-> 401, body |-> [detail |-> "Incorrect email or password"],
     www_authenticate |-> TRUE]

C10_LoginFailureUniform ==
    [][\A c \in Clients :
        (/\ Starts(c, "login")
         /\ LoginUnknownEmail(requests'[c].req) \/ LoginWrongPassword(requests'[c].req))
        => /\ requests'[c].pc = "done"
           /\ Seen(requests'[c]) = GenericLoginFailure
           /\ \A d \in Clients :
                 (d # c /\ requests[d].pc = "done" /\ requests[d].req.op = "login"
                  /\ requests[d].status # 200)
                    => Seen(requests[d]) = Seen(requests'[c])
           /\ UNCHANGED <<users, transactions, tokens>>
      ]_vars

\* one connection holds the 401 of a wrong password for a registered e-mail,
\* another the 401 of an e-mail nobody registered
C10_Witness ==
    \E c, d \in Clients :
        /\ requests[c].pc = "done" /\ requests[c].req.op = "login"
        /\ requests[d].pc = "done" /\ requests[d].req.op = "login"
        /\ requests[c].status = 401 /\ requests[d].status = 401
        /\ LoginWrongPassword(requests[c].req)
        /\ LoginUnknownEmail(requests[d].req)

(* ---------------------------------------------------------------------- *)
\* helpers of the transaction properties

GuardedOps == {"create", "list", "get", "delete", "balance"}

\* the identity a signed token states
Requester(req) == req.credentials.payload.sub

\* the positions of the documents with this public_id
ById(transaction_id) ==
    {i \in DOMAIN transactions : transactions[i].public_id = transaction_id}

\* the non-deleted documents of a user, of one type
OwnLive(user, type) ==
    {i \in DOMAIN transactions :
        /\ transactions[i].user_public_id = user
        /\ transactions[i].type = type
        /\ Live(transactions[i])}

RECURSIVE SumOver(_)
SumOver(S) ==
    IF S = {} THEN 0
    ELSE LET i == CHOOSE x \in S : TRUE
         IN  transactions[i].amount + SumOver(S \ {i})

\* the balance the store defines for a user
ExpectedBalance(user) ==
    [total_income |-> SumOver(OwnLive(user, "income")),
     total_expenses |-> SumOver(OwnLive(user, "expense")),
     current_balance |-> SumOver(OwnLive(user, "income"))
                            - SumOver(OwnLive(user, "expense")),
     transaction_count |-> Cardinality(OwnLive(user, "income"))
                              + Cardinality(OwnLive(user, "expense"))]

(* ---------------------------------------------------------------------- *)
\* C1: whatever the requests before, a list or get-by-id response to user A
\* holds only transactions whose user_public_id is A's, a balance response
\* to A has the count and the totals of A's transactions alone, and a delete
\* request of A sets deleted_at on no transaction of another user.
C1_Isolation ==
    [][\A c \in TxnClients :
        /\ (Completes(c, "list") /\ requests'[c].status = 200)
              => \A k \in DOMAIN requests'[c].body :
                    \A i \in ById(requests'[c].body[k].public_id) :
                        transactions[i].user_public_id = Requester(requests[c].req)
        /\ (Completes(c, "get") /\ requests'[c].status = 200)
              => \A i \in ById(requests'[c].body.public_id) :
                    transactions[i].user_public_id = Requester(requests[c].req)
        /\ (Completes(c, "balance") /\ requests'[c].status = 200)
              => requests'[c].body = ExpectedBalance(Requester(requests[c].req))
        /\ Completes(c, "delete")
              => \A i \in DOMAIN transactions :
                    transactions'[i].deleted_at # transactions[i].deleted_at
                        => transactions[i].user_public_id = Requester(requests[c].req)
        /\ \A i \in DOMAIN transactions :
              transactions'[i].deleted_at # transactions[i].deleted_at
                  => \E d \in TxnClients : Completes(d, "delete")
      ]_vars

\* both users hold live transactions, and A has asked by id for a live
\* transaction of B and been answered 404
C1_Witness ==
    /\ \E i, j \in DOMAIN transactions :
          /\ transactions[i].user_public_id # transactions[j].user_public_id
          /\ Live(transactions[i]) /\ Live(transactions[j])
    /\ \E c \in TxnClients :
          /\ requests[c].pc = "done"
          /\ requests[c].req.op = "get"
          /\ requests[c].status = 404
          /\ \E i \in ById(requests[c].req.args.transaction_id) :
                /\ Live(transactions[i])
                /\ transactions[i].user_public_id # Requester(requests[c].req)

(* ---------------------------------------------------------------------- *)
\* C5: the balance response of a user is total_income = the sum of the
\* amounts of the user's non-deleted income transactions, total_expenses =
\* the same for expenses, current_balance = their difference and
\* transaction_count = the number of the user's non-deleted transactions,
\* whatever the order of the creates; a type without transactions
\* contributes 0, so a user without transactions gets {0, 0, 0, 0}.
C5_BalanceIsTheSum ==
    [][\A c \in TxnClients :
        Completes(c, "balance")
           => /\ requests'[c].status = 200
              /\ requests'[c].body = ExpectedBalance(Requester(requests[c].req))
              /\ (\A i \in DOMAIN transactions :
                     transactions[i].user_public_id # Requester(requests[c].req))
                   => requests'[c].body =
                        [total_income |-> 0, total_expenses |-> 0,
                         current_balance |-> 0, transaction_count |-> 0]
      ]_vars

\* an expense of 500 created before an income of 5000: {5000, 500, 4500, 2}
C5_Witness ==
    \E c \in TxnClients :
        /\ requests[c].pc = "done"
        /\ requests[c].req.op = "balance"
        /\ requests[c].body = [total_income |-> 5000, total_expenses |-> 500,
                               current_balance |-> 4500, transaction_count |-> 2]
        /\ Len(transactions) >= 2
        /\ transactions[1].type = "expense"
        /\ transactions[2].type = "income"

(* ---------------------------------------------------------------------- *)
\* C6: a delete answered 204 sets deleted_at on the transaction, deleted_at
\* once set stays set, and from then on the transaction is in no list
\* response, every get-by-id for it is answered 404, the balance leaves it out
\* of the totals and the count, and every later delete of it is answered 404
\* (income 5000 and expense 500, the expense deleted: {5000, 0, 5000, 1}).
Deleted(transaction_id) ==
    \E i \in ById(transaction_id) : ~Live(transactions[i])

C6_DeletedStaysHidden ==
    [][/\ \A i \in DOMAIN transactions :
             ~Live(transactions[i])
                => /\ i \in DOMAIN transactions'
                   /\ transactions'[i].public_id = transactions[i].public_id
                   /\ ~Live(transactions'[i])
       /\ \A c \in TxnClients :
           /\ (Completes(c, "delete") /\ requests'[c].status = 204)
                 => /\ ~Deleted(requests[c].req.args.transaction_id)
                    /\ \E i \in ById(requests[c].req.args.transaction_id) :
                          ~Live(transactions'[i])
           /\ (Completes(c, "delete") /\ Deleted(requests[c].req.args.transaction_id))
                 => /\ requests'[c].status = 404
                    /\ transactions' = transactions
           /\ (Completes(c, "get") /\ Deleted(requests[c].req.args.transaction_id))
                 => requests'[c].status = 404
           /\ Completes(c, "list")
                 => \A k \in DOMAIN requests'[c].body :
                       ~Deleted(requests'[c].body[k].public_id)
           /\ Completes(c, "balance")
                 => LET A == Requester(requests[c].req)
                        live == {i \in DOMAIN transactions :
                                    transactions[i].user_public_id = A
                                    /\ Live(transactions[i])}
                    IN  /\ requests'[c].body.transaction_count = Cardinality(live)
                        /\ requests'[c].body.total_income
                              + requests'[c].body.total_expenses = SumOver(live)
      ]_vars

\* income 5000 and expense 500, the expense deleted, and the balance asked
C6_Witness ==
    \E c \in TxnClients :
        /\ requests[c].pc = "done"
        /\ requests[c].req.op = "balance"
        /\ requests[c].body = [total_income |-> 5000, total_expenses |-> 0,
                               current_balance |-> 5000, transaction_count |-> 1]
        /\ \E i \in DOMAIN transactions :
              /\ transactions[i].user_public_id = Requester(requests[c].req)
              /\ transactions[i].type = "expense"
              /\ transactions[i].amount = 500
              /\ ~Live(transactions[i])

(* ---------------------------------------------------------------------- *)
\* C7: a request to any transaction route that carries no bearer token, a
\* malformed token, a token with a bad signature, an expired token, or a
\* token without the sub or the email claim is answered 401 in the step that
\* receives it: the handler body never runs for it, and the store is as it
\* was. A handler body only ever runs for, and the transactions only ever
\* change under, a token that is none of these.
Expired(credentials, t) == credentials.payload.exp < UnixSeconds(t)

InvalidCredentials(credentials, t) ==
    \/ credentials.kind \in {"none", "malformed", "badsig"}
    \/ /\ credentials.kind = "signed"
       /\ \/ "sub" \notin DOMAIN credentials.payload
          \/ "email" \notin DOMAIN credentials.payload
          \/ Expired(credentials, t)

C7_InvalidTokenIs401 ==
    [][/\ \A c \in TxnClients, op \in GuardedOps :
           (Starts(c, op) /\ InvalidCredentials(requests'[c].req.credentials, now))
              => /\ requests'[c].pc = "done"
                 /\ requests'[c].status = 401
                 /\ requests'[c].www_authenticate
                 /\ UNCHANGED <<users, transactions, tokens>>
       /\ \A c \in TxnClients :
           requests'[c].pc = "body"
              => ~InvalidCredentials(requests'[c].req.credentials, now)
       /\ transactions' # transactions
              => \E c \in TxnClients :
                    /\ requests[c].pc = "body"
                    /\ ~InvalidCredentials(requests[c].req.credentials, now)
      ]_vars

\* a delete of an existing, live transaction under its owner's expired token
\* has been answered 401
C7_Witness ==
    \E c \in TxnClients :
        /\ requests[c].pc = "done"
        /\ requests[c].req.op = "delete"
        /\ requests[c].status = 401
        /\ requests[c].req.credentials.kind = "signed"
        /\ {"sub", "email"} \subseteq DOMAIN requests[c].req.credentials.payload
        /\ Expired(requests[c].req.credentials, now)
        /\ \E i \in ById(requests[c].req.args.transaction_id) :
              /\ Live(transactions[i])
              /\ transactions[i].user_public_id = Requester(requests[c].req)

(* ---------------------------------------------------------------------- *)
\* C8: for a request under a validly signed, unexpired token with both
\* claims, the user record at the time of the request decides: no non-deleted
\* user with the token's public_id (soft-deleted, or never there) -- the same
\* 401 as for an invalid token; a non-deleted user with is_active false --
\* 403; otherwise the handler is entered as that user. So a token issued
\* before the soft delete or the deactivation is refused ever after.
WellSigned(credentials, t) ==
    /\ credentials.kind = "signed"
    /\ {"sub", "email"} \subseteq DOMAIN credentials.payload
    /\ ~Expired(credentials, t)

InvalidTokenResponse ==
    [status |-> 401, body |-> [detail |-> "Could not validate credentials"],
     www_authenticate |-> TRUE]

C8_GuardFollowsUserRecord ==
    [][\A c \in GuardClients, op \in GuardedOps :
        (Starts(c, op) /\ WellSigned(requests'[c].req.credentials, now))
           => LET sub == requests'[c].req.credentials.payload.sub
                  live == {i \in DOMAIN users :
                              users[i].public_id = sub /\ Live(users[i])}
              IN  IF live = {}
                  THEN /\ requests'[c].pc = "done"
                       /\ Seen(requests'[c]) = InvalidTokenResponse
                  ELSE IF \E i \in live : ~users[i].is_active
                  THEN /\ requests'[c].pc = "done"
                       /\ requests'[c].status = 403
                  ELSE /\ requests'[c].pc = "body"
                       /\ requests'[c].current_user = sub
      ]_vars

\* a token login issued, still unexpired, has been refused with 401 after
\* its user was soft-deleted
C8_Witness ==
    \E c \in GuardClients :
        /\ requests[c].pc = "done"
        /\ requests[c].req.op \in GuardedOps
        /\ requests[c].status = 401
        /\ \E t \in tokens : t.token = requests[c].req.credentials
        /\ WellSigned(requests[c].req.credentials, now)
        /\ \E i \in DOMAIN users :
              /\ users[i].public_id = Requester(requests[c].req)
              /\ ~Live(users[i])

(* ---------------------------------------------------------------------- *)
\* C9 as claimed: a token login issued at T0 for an active user is accepted
\* at every time before T0 + TTL and answered 401 at every time after
\* T0 + TTL, the TTL being access_token_expire_minutes.
\* (The expiry travels and is compared in whole seconds: a request in the
\* second that follows T0 + TTL is still accepted.)
ActiveUser(pid) ==
    \E i \in DOMAIN users :
        users[i].public_id = pid /\ Live(users[i]) /\ users[i].is_active

ConfiguredTTL == access_token_expire_minutes * 60 * TicksPerSecond

\* connection c receives, in this step, a request under token entry t
UsesToken(c, t) ==
    /\ \E op \in GuardedOps : Starts(c, op)
    /\ requests'[c].req.credentials = t.token
    /\ ActiveUser(t.token.payload.sub)

\* the request connection c receives in this step is answered 401
Refused(c) == requests'[c].pc = "done" /\ requests'[c].status = 401

C9_ExpiryExact ==
    [][\A c \in GuardClients, t \in tokens :
        UsesToken(c, t)
           => /\ now < t.issued_at + ConfiguredTTL => ~Refused(c)
              /\ now > t.issued_at + ConfiguredTTL => Refused(c)
      ]_vars

\* C9 as amended: accepted at every time before T0 + TTL, answered 401 at
\* every time one second or more after T0 + TTL; the TTL is
\* access_token_expire_minutes. In between, the token is refused exactly
\* when the clock's whole second exceeds the whole second of T0 + TTL.
C9_ExpiryWholeSeconds ==
    [][\A c \in GuardClients, t \in tokens :
        UsesToken(c, t)
           => /\ now < t.issued_at + ConfiguredTTL => ~Refused(c)
              /\ now >= t.issued_at + ConfiguredTTL + TicksPerSecond => Refused(c)
              /\ Refused(c)
                    <=> UnixSeconds(now) > UnixSeconds(t.issued_at + ConfiguredTTL)
      ]_vars

\* a token has been refused one second after its expiry, its user active
C9_Witness ==
    \E c \in GuardClients, t \in tokens :
        /\ requests[c].pc = "done"
        /\ requests[c].req.op \in GuardedOps
        /\ requests[c].status = 401
        /\ requests[c].req.credentials = t.token
        /\ ActiveUser(t.token.payload.sub)
        /\ now >= t.issued_at + ConfiguredTTL + TicksPerSecond

(* ====================================================================== *)
(*                     creation of transactions                           *)
(* ====================================================================== *)

\* bodies with a zero or a negative amount, one for every pair of a type and
\* a category
NonPositiveAmountBodies ==
    {[type |-> t, category |-> k, amount |-> a, description |-> 0, date |-> None] :
        t \in TransactionType, k \in TransactionCategory, a \in {0, -100}}

\* bodies that carry a user_public_id of the client's choosing next to the
\* fields of TransactionCreate (pydantic ignores the extra field)
ForgedOwnerBodies ==
    {[type |-> "income", category |-> "salary", amount |-> 500, description |-> 0,
      date |-> None, user_public_id |-> u] : u \in 1..UnknownSub}

CreateRequests ==
    {[op |-> "create", body |-> b] :
        b \in NonPositiveAmountBodies \cup ForgedOwnerBodies
              \cup {[type |-> "expense", category |-> "food", amount |-> 500,
                     description |-> 0, date |-> None]}}

CreateClients == {1}

\* POST /transactions alone, on one connection, for the two users and the
\* three tokens of InitTxn and every other credential.
NextCreate ==
    \/ GuardStep(CreateClients, CreateRequests)
    \/ \E c \in CreateClients : CreateBody(c)
    \/ ReceiveStep(CreateClients)

SpecCreate == InitTxn /\ [][NextCreate]_vars

(* ---------------------------------------------------------------------- *)
\* C11: a create request whose amount is 0 or negative is rejected, for every
\* type and category and under every credential, in the step that receives
\* it, and the transactions collection is as it was; the rejection is the 422
\* of the validation whenever the auth guard lets the request through (the
\* guard answers first, with its own 401 or 403). So every stored transaction
\* has amount > 0.
C11_NonPositiveAmountRejected ==
    [][/\ \A c \in CreateClients :
             (Starts(c, "create") /\ requests'[c].req.args.body.amount <= 0)
                => /\ requests'[c].pc = "done"
                   /\ transactions' = transactions
                   /\ IF get_current_user(requests'[c].req.credentials, now).status = 200
                      THEN requests'[c].status = 422
                      ELSE requests'[c].status \in {401, 403}
       /\ \A i \in DOMAIN transactions' : transactions'[i].amount > 0
      ]_vars

\* while the store holds a transaction, its owner's request to create an
\* expense of amount 0 in a category of incomes has been answered 422
C11_Witness ==
    \E c \in CreateClients :
        /\ requests[c].pc = "done"
        /\ requests[c].req.op = "create"
        /\ requests[c].status = 422
        /\ requests[c].req.args.body.amount = 0
        /\ requests[c].req.args.body.type = "expense"
        /\ requests[c].req.args.body.category = "salary"
        /\ get_current_user(requests[c].req.credentials, now).status = 200
        /\ \E i \in DOMAIN transactions :
              transactions[i].user_public_id = Requester(requests[c].req)

(* ---------------------------------------------------------------------- *)
\* C12: get-by-id and delete answer user A the same 404 "Transaction not
\* found" for an id that belongs to a transaction of another user, for an id
\* no transaction has, and for an id of a transaction A has soft-deleted, and
\* a delete so answered writes nothing. The response to A is a function of
\* A's own documents alone: two stores that differ only in the transactions
\* of other users give A the same response.
NotFoundResponse ==
    [status |-> 404, body |-> [detail |-> "Transaction not found"],
     www_authenticate |-> FALSE]

\* the documents of user A, in insertion order
OwnDocs(A) == SelectSeq(transactions, LAMBDA d : d.user_public_id = A)

\* what A is to see of transaction_id, from A's documents alone
ExpectedById(A, op, transaction_id) ==
    LET own == OwnDocs(A)
        hits == {k \in DOMAIN own :
                    own[k].public_id = transaction_id /\ Live(own[k])}
    IN  IF hits = {} THEN NotFoundResponse
        ELSE IF op = "get"
        THEN [status |-> 200, body |-> TransactionResponse(own[First(hits)]),
              www_authenticate |-> FALSE]
        ELSE [status |-> 204, body |-> <<>>, www_authenticate |-> FALSE]

C12_NotFoundUniform ==
    [][\A c \in TxnClients, op \in {"get", "delete"} :
        Completes(c, op)
           => LET A == Requester(requests[c].req)
                  id == requests[c].req.args.transaction_id
              IN  /\ Seen(requests'[c]) = ExpectedById(A, op, id)
                  /\ (\E i \in ById(id) : transactions[i].user_public_id # A)
                        => Seen(requests'[c]) = NotFoundResponse
                  /\ ById(id) = {}
                        => Seen(requests'[c]) = NotFoundResponse
                  /\ (\E i \in ById(id) : /\ transactions[i].user_public_id = A
                                          /\ ~Live(transactions[i]))
                        => Seen(requests'[c]) = NotFoundResponse
                  /\ requests'[c].status = 404 => transactions' = transactions
      ]_vars

\* A, who has soft-deleted a transaction of A's own, has asked to delete a
\* live transaction of B and been answered 404, the transaction still live
C12_Witness ==
    \E c \in TxnClients :
        /\ requests[c].pc = "done"
        /\ requests[c].req.op = "delete"
        /\ Seen(requests[c]) = NotFoundResponse
        /\ \E i \in ById(requests[c].req.args.transaction_id) :
              /\ Live(transactions[i])
              /\ transactions[i].user_public_id # Requester(requests[c].req)
        /\ \E j \in DOMAIN transactions :
              /\ transactions[j].user_public_id = Requester(requests[c].req)
              /\ ~Live(transactions[j])

(* ====================================================================== *)
(*                        passwords at login                              *)
(* ====================================================================== *)

\* registrations in which each e-mail comes with one password: a@x.c with an
\* 8-character password, b@x.c with a 73-character one
PasswordBodies ==
    {[email |-> EmailAx, full_name |-> 5, password |-> PwValid],
     [email |-> EmailBx, full_name |-> 5, password |-> PwLong]}

PasswordForms ==
    {[email |-> e, password |-> p] :
        e \in {EmailAx, EmailBx},
        p \in {PwValid, PwValid2, PwWrong, PwLong, PwLongOther}}

PasswordClients == {1}

\* Registration and login on one connection, from the empty store, with
\* passwords of both lengths.
NextPassword ==
    \/ \E c \in PasswordClients, b \in PasswordBodies :
          RegisterCheck(c, b.email, b.full_name, b.password)
    \/ \E c \in PasswordClients, s \in Salts : RegisterInsert(c, s)
    \/ \E c \in PasswordClients, f \in PasswordForms :
          Login(c, f.email, f.password)
    \/ ReceiveStep(PasswordClients)
    \/ \E i \in 1..MaxUsers : SoftDeleteUser(i)

SpecPassword == Init /\ [][NextPassword]_vars

(* ---------------------------------------------------------------------- *)
\* C13: login with password p for a non-deleted user is answered 200 with a
\* bearer token whose subject is the user's public_id exactly when p is the
\* password given at the user's registration: verify(p, hash(p)) holds for
\* every valid password and verify(q, hash(p)) fails for every other q.
\* (bcrypt reads the first 72 bytes only: a password that shares them with a
\* longer registered password verifies.)
RegisteredWith(email) ==
    (CHOOSE b \in PasswordBodies : EmailNormalize(b.email) = email).password

C13_LoginIffRegisteredPassword ==
    [][\A c \in PasswordClients :
        (Starts(c, "login") /\ HeldByLiveUser(requests'[c].req.email))
           => LET req == requests'[c].req
                  u == First(ActiveByEmail(req.email))
              IN  /\ requests'[c].pc = "done"
                  /\ requests'[c].status = 200
                        <=> req.password = RegisteredWith(req.email)
                  /\ requests'[c].status = 200
                        => /\ requests'[c].body.token_type = "bearer"
                           /\ requests'[c].body.access_token.payload.sub
                                 = users[u].public_id
                  /\ requests'[c].status # 200
                        => Seen(requests'[c]) = GenericLoginFailure
      ]_vars

(* ---------------------------------------------------------------------- *)
\* C14: the transaction a create request inserts has user_public_id equal to
\* the public_id of the user the auth guard resolved for that request,
\* whatever the body holds (a user_public_id field in the body is ignored);
\* so every stored transaction has the public_id of a user document of the
\* users collection.
C14_OwnerIsTheAuthenticatedUser ==
    [][/\ \A c \in CreateClients :
             Completes(c, "create")
                => LET sub == requests[c].req.credentials.payload.sub
                       resolved == users[First(ActiveByPublicId(sub))]
                   IN  /\ requests[c].current_user = resolved.public_id
                       /\ Len(transactions') = Len(transactions) + 1
                       /\ SubSeq(transactions', 1, Len(transactions)) = transactions
                       /\ transactions'[Len(transactions')].user_public_id
                             = resolved.public_id
       /\ \A i \in DOMAIN transactions' :
             \E u \in DOMAIN users' :
                users'[u].public_id = transactions'[i].user_public_id
      ]_vars

\* a create whose body names another user as the owner has been answered
\* 201, and the transaction is stored under the requester
C14_Witness ==
    \E c \in CreateClients :
        /\ requests[c].pc = "done"
        /\ requests[c].req.op = "create"
        /\ requests[c].status = 201
        /\ "user_public_id" \in DOMAIN requests[c].req.args.body
        /\ requests[c].req.args.body.user_public_id # Requester(requests[c].req)
        /\ \E i \in ById(requests[c].body.public_id) :
              transactions[i].user_public_id = Requester(requests[c].req)

(* ====================================================================== *)
(*                       listing of transactions                          *)
(* ====================================================================== *)

\* the dates clients give their transactions
DateInputs == {1, 2}

DatedBodies ==
    {[type |-> "expense", category |-> "food", amount |-> 500, description |-> 0,
      date |-> d] : d \in DateInputs}

\* skip: int = 0 and limit: int = 100 are plain query integers: any value
\* passes validation
ListSkipInputs == -1..MaxTxns
ListLimitInputs == (-1..MaxTxns) \cup {100}

ListRequests ==
    {[op |-> "create", body |-> b] : b \in DatedBodies}
    \cup {[op |-> "list", skip |-> sk, limit |-> l] :
             sk \in ListSkipInputs, l \in ListLimitInputs}
    \cup {[op |-> "delete", transaction_id |-> i] : i \in 1..MaxTxns}

ListClients == {1}

\* GET /transactions with every skip and limit, on one connection, over
\* transactions of both users with equal and with different dates, some of
\* them soft-deleted.
NextList ==
    \/ GuardStep(ListClients, ListRequests)
    \/ \E c \in ListClients : CreateBody(c)
    \/ \E c \in ListClients : ListBody(c)
    \/ \E c \in ListClients : DeleteBody(c)
    \/ ReceiveStep(ListClients)

SpecList == InitTxn /\ [][NextList]_vars

(* ---------------------------------------------------------------------- *)
\* C15: a list request with skip and limit is answered 200 with the
\* requester's non-deleted transactions sorted by date descending, the first
\* skip of them dropped and at most limit of the rest returned, for every
\* skip and limit the endpoint accepts, limit = 0 included.
\* (The code hands skip and limit to the cursor as they come: limit 0 means
\* no limit, a negative limit its absolute value, a negative skip an error.)
Max(a, b) == IF a >= b THEN a ELSE b

C15_ListIsThePage ==
    [][\A c \in ListClients :
        Completes(c, "list")
           => LET A == Requester(requests[c].req)
                  skip == requests[c].req.args.skip
                  limit == requests[c].req.args.limit
                  own == {i \in DOMAIN transactions :
                             /\ transactions[i].user_public_id = A
                             /\ Live(transactions[i])}
                  r == requests'[c].body
                  shown == {i \in own : \E k \in DOMAIN r :
                                           r[k] = TransactionResponse(transactions[i])}
                  dropped == {i \in own \ shown :
                                 \A k \in DOMAIN r : transactions[i].date >= r[k].date}
              IN  /\ requests'[c].status = 200
                  /\ \A k \in DOMAIN r :
                        \E i \in own : r[k] = TransactionResponse(transactions[i])
                  /\ Cardinality(shown) = Len(r)
                  /\ \A k, l \in DOMAIN r : k < l => r[k].date >= r[l].date
                  /\ Len(r) = Min(limit, Max(Cardinality(own) - skip, 0))
                  /\ Cardinality(dropped) >= Min(skip, Cardinality(own))
                  /\ \A i \in own \ shown :
                        \A k \in DOMAIN r :
                           \/ transactions[i].date >= r[k].date
                           \/ transactions[i].date <= r[Len(r)].date
      ]_vars

(* ====================================================================== *)
(*                 one user on several connections                        *)
(* ====================================================================== *)

\* the state after one user registered and logged in at time 0
InitRace ==
    /\ users = <<RegisteredUser(1, EmailAx)>>
    /\ transactions = <<>>
    /\ tokens = {IssuedToken(RegisteredUser(1, EmailAx), 0)}
    /\ requests = [c \in Clients |-> Idle]
    /\ now = 0

\* one create body, sent again and again; deletes of every id; the balance
RaceRequests ==
    {[op |-> "create",
      body |-> [type |-> "income", category |-> "salary", amount |-> 5000,
                description |-> 0, date |-> None]]}
    \cup {[op |-> "delete", transaction_id |-> i] : i \in 1..MaxTxns}
    \cup {[op |-> "balance"]}

\* The user's requests on every connection, interleaved at the awaits of the
\* handlers, as time passes.
NextRace ==
    \/ \E c \in Clients, r \in RaceRequests, t \in tokens : Guard(c, r, t.token)
    \/ \E c \in Clients : CreateBody(c)
    \/ \E c \in Clients : DeleteBody(c)
    \/ \E c \in Clients : BalanceBody(c)
    \/ ReceiveStep(Clients)
    \/ Tick

SpecRace == InitRace /\ [][NextRace]_vars

(* ---------------------------------------------------------------------- *)
\* C16: creates are not deduplicated. Every create of a user that reaches
\* insert_one is answered 201 and appends one transaction with a public_id no
\* stored transaction has, also when the user's store already holds a
\* transaction of the same content and when an identical request is
\* suspended on another connection; the public_ids of the store are distinct,
\* and the balance counts and sums every one of the user's transactions.
SameContent(d, e) ==
    /\ d.user_public_id = e.user_public_id
    /\ d.type = e.type
    /\ d.category = e.category
    /\ d.amount = e.amount
    /\ d.description = e.description

C16_NoDeduplication ==
    [][/\ \A c \in Clients :
             Completes(c, "create")
                => LET new == transactions'[Len(transactions')]
                   IN  /\ requests'[c].status = 201
                       /\ Len(transactions') = Len(transactions) + 1
                       /\ SubSeq(transactions', 1, Len(transactions)) = transactions
                       /\ ById(new.public_id) = {}
                       /\ requests'[c].body = TransactionResponse(new)
                       /\ new.user_public_id = Requester(requests[c].req)
                       /\ new.amount = requests[c].req.args.body.amount
                       /\ new.type = requests[c].req.args.body.type
                       /\ Live(new)
       /\ \A i, j \in DOMAIN transactions' :
             transactions'[i].public_id = transactions'[j].public_id => i = j
       /\ \A c \in Clients :
             Completes(c, "balance")
                => requests'[c].body = ExpectedBalance(Requester(requests[c].req))
      ]_vars

\* two identical creates of one user are answered 201 on two connections at
\* once, with different public_ids, both transactions stored and live
C16_Witness ==
    \E c, d \in Clients :
        /\ c # d
        /\ requests[c].pc = "done" /\ requests[d].pc = "done"
        /\ requests[c].req.op = "create"
        /\ requests[c].req = requests[d].req
        /\ requests[c].status = 201 /\ requests[d].status = 201
        /\ requests[c].body.public_id # requests[d].body.public_id
        /\ \E i \in ById(requests[c].body.public_id),
              j \in ById(requests[d].body.public_id) :
              /\ SameContent(transactions[i], transactions[j])
              /\ Live(transactions[i]) /\ Live(transactions[j])

(* ---------------------------------------------------------------------- *)
\* C17: the conditional update of delete decides in one step. A delete of
\* the owner that finds the transaction non-deleted is answered 204 and sets
\* deleted_at on that transaction alone; a delete that finds it deleted, as
\* the slower of two interleaved deletes does, is answered 404 and writes
\* nothing. So of the deletes of one transaction exactly the first is
\* answered 204, and a deleted_at once set never changes.
C17_OneDeleteWins ==
    [][/\ \A c \in Clients :
             Completes(c, "delete")
                => LET A == Requester(requests[c].req)
                       target == {i \in ById(requests[c].req.args.transaction_id) :
                                     /\ transactions[i].user_public_id = A
                                     /\ Live(transactions[i])}
                   IN  IF target = {}
                       THEN /\ requests'[c].status = 404
                            /\ transactions' = transactions
                       ELSE /\ requests'[c].status = 204
                            /\ \A i \in target : transactions'[i].deleted_at = now
                            /\ \A i \in DOMAIN transactions \ target :
                                  transactions'[i] = transactions[i]
       /\ \A i \in DOMAIN transactions :
             ~Live(transactions[i])
                => transactions'[i].deleted_at = transactions[i].deleted_at
       /\ \A c, d \in Clients :
             (/\ c # d
              /\ requests'[c].pc = "done" /\ requests'[d].pc = "done"
              /\ requests'[c].req.op = "delete" /\ requests'[d].req.op = "delete"
              /\ requests'[c].req.args.transaction_id
                    = requests'[d].req.args.transaction_id)
                => ~(requests'[c].status = 204 /\ requests'[d].status = 204)
      ]_vars

\* two deletes of one transaction by its owner have been answered on two
\* connections at once, one 204 and one 404, and the transaction is deleted
C17_Witness ==
    \E c, d \in Clients :
        /\ c # d
        /\ requests[c].pc = "done" /\ requests[d].pc = "done"
        /\ requests[c].req.op = "delete"
        /\ requests[c].req = requests[d].req
        /\ requests[c].status = 204
        /\ requests[d].status = 404
        /\ \E i \in ById(requests[c].req.args.transaction_id) :
              /\ transactions[i].user_public_id = Requester(requests[c].req)
              /\ ~Live(transactions[i])

(* ---------------------------------------------------------------------- *)
\* C18: login answers 200 with a token for the user exactly when a
\* non-deleted user has the e-mail and the password is that user's; is_active
\* plays no part, so a deactivated, non-deleted user with the right password
\* is given a token. A guarded request under a token of such a user -- the
\* token unexpired, the user still there -- is answered 403 and the handler
\* is not entered.
LoginMatches(req) ==
    {i \in DOMAIN users : /\ users[i].email = req.email
                          /\ Live(users[i])
                          /\ RegisteredPassword(i) = req.password}

C18_LoginIgnoresIsActive ==
    [][\A c \in GuardClients :
        /\ Starts(c, "login")
              => LET req == requests'[c].req
                 IN  /\ requests'[c].pc = "done"
                     /\ requests'[c].status = 200 <=> LoginMatches(req) # {}
                     /\ requests'[c].status = 200
                           => /\ \E i \in LoginMatches(req) :
                                    requests'[c].body.access_token.payload.sub
                                       = users[i].public_id
                              /\ \E t \in tokens' :
                                    t.token = requests'[c].body.access_token
                     /\ requests'[c].status # 200
                           => Seen(requests'[c]) = GenericLoginFailure
        /\ \A op \in GuardedOps :
              (/\ Starts(c, op)
               /\ WellSigned(requests'[c].req.credentials, now)
               /\ \E i \in DOMAIN users :
                     /\ users[i].public_id = Requester(requests'[c].req)
                     /\ Live(users[i])
                     /\ ~users[i].is_active)
                 => /\ requests'[c].pc = "done"
                    /\ requests'[c].status = 403
                    /\ requests'[c].body = [detail |-> "Inactive user account"]
                    /\ UNCHANGED <<users, transactions, tokens>>
      ]_vars

\* a token issued by a login after the user's deactivation has been refused
\* with 403
C18_Witness ==
    \E c \in GuardClients, t \in tokens :
        /\ requests[c].pc = "done"
        /\ requests[c].req.op \in GuardedOps
        /\ requests[c].status = 403
        /\ requests[c].req.credentials = t.token
        /\ \E i \in DOMAIN users :
              /\ users[i].public_id = t.token.payload.sub
              /\ Live(users[i])
              /\ ~users[i].is_active
              /\ users[i].updated_at < t.issued_at

(* ====================================================================== *)
(*                 every handler on one connection                        *)
(* ====================================================================== *)

ServiceRegisterBodies ==
    {[email |-> EmailAx,  full_name |-> 5, password |-> PwValid],
     [email |-> EmailBx,  full_name |-> 5, password |-> PwValid],
     [email |-> EmailBad, full_name |-> 5, password |-> PwValid]}

ServiceLoginForms ==
    {[email |-> e, password |-> p] :
        e \in {EmailAx, EmailBx}, p \in {PwValid, PwWrong}}

ServiceRequests ==
    {[op |-> "create", body |-> b] :
        b \in {[type |-> "income", category |-> "salary", amount |-> a,
                description |-> 0, date |-> None] : a \in {0, 5000}}}
    \cup {[op |-> "list", skip |-> sk, limit |-> l] : sk \in SkipInputs, l \in LimitInputs}
    \cup {[op |-> "get", transaction_id |-> i] : i \in {1, MaxTxns + 1}}
    \cup {[op |-> "delete", transaction_id |-> i] : i \in {1, MaxTxns + 1}}
    \cup {[op |-> "balance"]}

ServiceClients == {1}

\* two instants of the clock
ServiceTimes == {0, 1}

\* The whole service on one connection, from the empty store: a user
\* registers, logs in and works on transactions as time passes, and account
\* management deactivates the user.
NextService ==
    \/ \E c \in ServiceClients, b \in ServiceRegisterBodies :
          RegisterCheck(c, b.email, b.full_name, b.password)
    \/ \E c \in ServiceClients : RegisterInsert(c, "salt1")
    \/ \E c \in ServiceClients, f \in ServiceLoginForms :
          Login(c, f.email, f.password)
    \/ \E c \in ServiceClients, r \in ServiceRequests,
          cr \in {t.token : t \in tokens} \cup {NoHeader} : Guard(c, r, cr)
    \/ BodyStep(ServiceClients)
    \/ ReceiveStep(ServiceClients)
    \/ TickTo(ServiceTimes)
    \/ \E i \in 1..MaxUsers : DeactivateUser(i)

SpecService == Init /\ [][NextService]_vars

(* ---------------------------------------------------------------------- *)
\* C19: no step of a login, list, get-by-id or balance request changes the
\* users or the transactions collection, whatever the outcome; and no step
\* that ends a request, on any endpoint, with 400, 401, 403, 404 or 422
\* changes either collection.
ReadOnlyOps == {"login", "list", "get", "balance"}

RefusalStatuses == {400, 401, 403, 404, 422}

\* connection c's request gets its response in this step
Responds(c) == requests[c].pc # "done" /\ requests'[c].pc = "done"

C19_ReadsAndRefusalsWriteNothing ==
    [][\A c \in ServiceClients :
        /\ (\E op \in ReadOnlyOps : Starts(c, op) \/ Completes(c, op))
              => UNCHANGED <<users, transactions>>
        /\ (Responds(c) /\ requests'[c].status \in RefusalStatuses)
              => UNCHANGED <<users, transactions>>
      ]_vars

\* the delete of a live transaction by its owner, since deactivated, has
\* been answered 403, and the transaction is still live
C19_Witness ==
    \E c \in ServiceClients :
        /\ requests[c].pc = "done"
        /\ requests[c].req.op = "delete"
        /\ requests[c].status = 403
        /\ \E i \in ById(requests[c].req.args.transaction_id) :
              /\ transactions[i].user_public_id = Requester(requests[c].req)
              /\ Live(transactions[i])

(* ---------------------------------------------------------------------- *)
\* C20: a step of a request handler removes no document and changes no field
\* but a transaction's deleted_at: the users and the transactions only grow
\* at the end, a user document stays as registered, a transaction keeps its
\* public_id, owner, type, amount, date and every other field, and its
\* deleted_at goes from None to the time of the delete once and then stays.
HandlerStep == requests' # requests

WithoutDeletedAt(doc) == [doc EXCEPT !.deleted_at = None]

C20_OnlyDeletedAtIsWritten ==
    [][HandlerStep
        => /\ Len(users') >= Len(users)
           /\ \A i \in DOMAIN users : users'[i] = users[i]
           /\ Len(transactions') >= Len(transactions)
           /\ \A i \in DOMAIN transactions :
                 /\ WithoutDeletedAt(transactions'[i]) = WithoutDeletedAt(transactions[i])
                 /\ ~Live(transactions[i])
                       => transactions'[i].deleted_at = transactions[i].deleted_at
                 /\ (Live(transactions[i]) /\ ~Live(transactions'[i]))
                       => transactions'[i].deleted_at = now
      ]_vars

\* a transaction deleted after its creation, a second delete of it answered
\* 404 later still, and both users registered
C20_Witness ==
    /\ Len(users) = 2
    /\ \E c \in ServiceClients :
          /\ requests[c].pc = "done"
          /\ requests[c].req.op = "delete"
          /\ requests[c].status = 404
          /\ \E i \in ById(requests[c].req.args.transaction_id) :
                /\ transactions[i].user_public_id = Requester(requests[c].req)
                /\ ~Live(transactions[i])
                /\ transactions[i].created_at < transactions[i].deleted_at

====
